---- MODULE Spec2Model ----
(***************************************************************************)
(* Verification model of the nospoilers front end (record reversion,       *)
(* spoiler-safe record adjustment, game cards) and of the excitement       *)
(* scoring engine it consumes.                                             *)
(*                                                                         *)
(* JavaScript strings are modelled as sequences of one-character strings,  *)
(* so that split, parseInt and template literals are computed character    *)
(* by character.  JavaScript values that may be a number, NaN or undefined *)
(* are modelled as records [kind, val].                                    *)
(***************************************************************************)
EXTENDS Integers, Sequences, FiniteSets, TLC

VARIABLES
    \* ---- record reverter (gemini.ts revertRecord, GameCard getPreGameRecord)
    pre,            \* pre-game (wins, losses, ties) of a round trip, or <<>>
    record,         \* the record string handed to the reverter
    result,         \* the GameResult handed to the reverter
    reverted,       \* what revertRecord returned
    preGameRecord,  \* what getPreGameRecord returned
    called,         \* which of the two reverters have returned
    \* ---- schedule of a viewed week (gemini.ts fetchSchedule) and its cards
    continuousWeek,       \* the week handed to fetchSchedule (the viewed week)
    weekData,             \* ESPN's answer to fetchCurrentWeek
    scheduleResponse,     \* ESPN's answer for the viewed week
    currentWeekResponse,  \* ESPN's answer for the current week
    teamResults,          \* the team -> result map adjustRecordsForFutureWeek built
    currentWeekRequests,  \* the requests adjustRecordsForFutureWeek sent to ESPN
    games,                \* the Game list fetchSchedule returned
    isRevealed,           \* isRevealed of each game's GameCard
    pc,                   \* "loading" before fetchSchedule returned, then "shown"
    \* ---- excitement scoring engine (one call)
    trace,          \* raw win-probability samples, in hundredths
    homeScore,      \* final home score
    awayScore,      \* final away score
    isOvertime,     \* overtime flag
    state,          \* "pre", "in" or "post"
    excitement,     \* the score returned, in 1/400 (4000 is 10.0)
    scored,         \* whether the engine has returned
    \* ---- App (state of the component, its effects and requests in flight)
    appCurrentWeek,   \* App's currentWeek: WeekInfo (week, seasonType), or null
    viewMode,         \* "weekly" or "season"
    seasonTopGames,   \* the Game list of the season view
    loadingSchedule,  \* the loading flag
    loads,            \* loadSchedule calls in flight: the week and its API parameters
    seasonLoads,      \* loadSeasonBest calls in flight: the maxWeek of each
    queue,            \* processNextGame of the latest queue effect: stage and game
    cancelled,        \* requests in flight of queue effects that were cleaned up
    requests,         \* the games requested from the backend, in order
    clicks            \* week and view-mode changes made so far

recordVars == <<pre, record, result, reverted, preGameRecord, called>>

scheduleVars ==
    <<continuousWeek, weekData, scheduleResponse, currentWeekResponse,
      teamResults, currentWeekRequests, games, isRevealed, pc>>

engineVars == <<trace, homeScore, awayScore, isOvertime, state, excitement, scored>>

appVars ==
    <<appCurrentWeek, viewMode, seasonTopGames, loadingSchedule, loads, seasonLoads,
      queue, cancelled, requests, clicks>>

vars == <<recordVars, scheduleVars, engineVars, appVars>>

-----------------------------------------------------------------------------
(* Bounds of the model *)

MaxCount == 11      \* wins, losses and ties of generated records: 0..MaxCount
MaxLen == 4         \* length of the arbitrary record strings
MaxEvents == 1      \* events in the current week's scoreboard: 0..MaxEvents
MaxScore == 45      \* final scores on the fallback path: 0..MaxScore
MaxTraceLen == 4    \* length of the short probability traces

-----------------------------------------------------------------------------
(* JavaScript values and strings *)

Num(n) == [kind |-> "number", val |-> n]
NaN == [kind |-> "NaN", val |-> 0]
Undefined == [kind |-> "undefined", val |-> 0]
Null == [kind |-> "null", val |-> 0]

DigitSeq == <<"0", "1", "2", "3", "4", "5", "6", "7", "8", "9">>
DigitChars == {DigitSeq[i] : i \in 1..10}
WhiteSpace == {" "}
DigitVal(c) == (CHOOSE i \in 1..10 : DigitSeq[i] = c) - 1

\* String(n) for a non-negative integer: decimal digits, no leading zeros
RECURSIVE NatToString(_)
NatToString(n) ==
    IF n < 10 THEN <<DigitSeq[n + 1]>>
    ELSE NatToString(n \div 10) \o <<DigitSeq[(n % 10) + 1]>>

\* `${v}` of a template literal
ToStr(v) ==
    CASE v.kind = "number" ->
            IF v.val < 0 THEN <<"-">> \o NatToString(-v.val) ELSE NatToString(v.val)
      [] v.kind = "NaN" -> <<"N", "a", "N">>
      [] OTHER -> <<"u", "n", "d", "e", "f", "i", "n", "e", "d">>

\* record.split('-')
RECURSIVE SplitFrom(_, _, _)
SplitFrom(s, i, cur) ==
    IF i > Len(s) THEN <<cur>>
    ELSE IF s[i] = "-" THEN <<cur>> \o SplitFrom(s, i + 1, <<>>)
    ELSE SplitFrom(s, i + 1, Append(cur, s[i]))

split(s) == SplitFrom(s, 1, <<>>)

RECURSIVE TrimLeft(_)
TrimLeft(s) ==
    IF s # <<>> /\ s[1] \in WhiteSpace THEN TrimLeft(Tail(s)) ELSE s

RECURSIVE LeadingDigits(_)
LeadingDigits(s) ==
    IF s # <<>> /\ s[1] \in DigitChars
    THEN <<s[1]>> \o LeadingDigits(Tail(s))
    ELSE <<>>

RECURSIVE DigitsValue(_, _)
DigitsValue(s, acc) ==
    IF s = <<>> THEN acc ELSE DigitsValue(Tail(s), 10 * acc + DigitVal(s[1]))

\* parseInt(s, 10): leading white space is skipped, then an optional sign,
\* then the longest run of digits; NaN when there is no digit
parseInt(s) ==
    LET t == TrimLeft(s)
        signed == t # <<>> /\ t[1] \in {"+", "-"}
        neg == t # <<>> /\ t[1] = "-"
        d == LeadingDigits(IF signed THEN Tail(t) ELSE t)
    IN  IF d = <<>> THEN NaN
        ELSE Num(IF neg THEN -DigitsValue(d, 0) ELSE DigitsValue(d, 0))

isNaN(v) == v.kind # "number"

\* let [w, l, t] = parts: a missing element is undefined
Element(parts, k) == IF k <= Len(parts) THEN parts[k] ELSE Undefined

\* v - 1
MinusOne(v) == IF v.kind = "number" THEN Num(v.val - 1) ELSE NaN

\* Math.max(0, v)
MathMax0(v) ==
    IF v.kind = "number" THEN Num(IF v.val > 0 THEN v.val ELSE 0) ELSE NaN

Truthy(v) == v.kind = "number" /\ v.val # 0

\* (v || 0)
OrZero(v) == IF Truthy(v) THEN v ELSE Num(0)

\* v > 0
GreaterThanZero(v) == v.kind = "number" /\ v.val > 0

Results == {"win", "loss", "tie"}

-----------------------------------------------------------------------------
(* Record reverter *)

ParseParts(rec) == [i \in 1..Len(split(rec)) |-> parseInt(split(rec)[i])]

\* mutant: the decrement is not floored at 0
RevertedParts_NoFloor(parts, res) ==
    LET w0 == Element(parts, 1)
        l0 == Element(parts, 2)
        t0 == Element(parts, 3)
    IN  [w |-> IF res = "win" THEN MinusOne(w0) ELSE w0,
         l |-> IF res = "loss" THEN MinusOne(l0) ELSE l0,
         t |-> IF res = "tie" THEN MinusOne(OrZero(t0)) ELSE t0]

\* mutant: a loss is taken off the wins
RevertedParts_LossOffWins(parts, res) ==
    LET w0 == Element(parts, 1)
        l0 == Element(parts, 2)
        t0 == Element(parts, 3)
    IN  [w |-> IF res \in {"win", "loss"} THEN MathMax0(MinusOne(w0)) ELSE w0,
         l |-> l0,
         t |-> IF res = "tie" THEN MathMax0(MinusOne(OrZero(t0))) ELSE t0]

RevertedParts(parts, res) ==
    LET w0 == Element(parts, 1)
        l0 == Element(parts, 2)
        t0 == Element(parts, 3)
    IN  [w |-> IF res = "win" THEN MathMax0(MinusOne(w0)) ELSE w0,
         l |-> IF res = "loss" THEN MathMax0(MinusOne(l0)) ELSE l0,
         t |-> IF res = "tie" THEN MathMax0(MinusOne(OrZero(t0))) ELSE t0]

\* mutant: the ties part is written whenever the ties count is a number
revertRecord_TiesAlwaysWritten(rec, res) ==
    IF rec = <<>> THEN <<>>
    ELSE LET parts == ParseParts(rec)
         IN  IF \E i \in 1..Len(parts) : isNaN(parts[i]) THEN rec
             ELSE LET p == RevertedParts(parts, res)
                  IN  IF p.t.kind = "number"
                      THEN ToStr(p.w) \o <<"-">> \o ToStr(p.l) \o <<"-">> \o ToStr(p.t)
                      ELSE ToStr(p.w) \o <<"-">> \o ToStr(p.l)

revertRecord(rec, res) ==
    IF rec = <<>> THEN <<>>
    ELSE LET parts == ParseParts(rec)
         IN  IF \E i \in 1..Len(parts) : isNaN(parts[i]) THEN rec
             ELSE LET p == RevertedParts(parts, res)
                  IN  IF Truthy(p.t) /\ GreaterThanZero(p.t)
                      THEN ToStr(p.w) \o <<"-">> \o ToStr(p.l) \o <<"-">> \o ToStr(p.t)
                      ELSE ToStr(p.w) \o <<"-">> \o ToStr(p.l)

\* mutant: the ties part is written when the ties count is 0 too
getPreGameRecord_ZeroTiesWritten(rec, res) ==
    IF rec = <<>> THEN <<>>
    ELSE LET parts == ParseParts(rec)
         IN  IF \E i \in 1..Len(parts) : isNaN(parts[i]) THEN rec
             ELSE LET p == RevertedParts(parts, res)
                  IN  IF p.t.kind = "number" /\ p.t.val >= 0
                      THEN ToStr(p.w) \o <<"-">> \o ToStr(p.l) \o <<"-">> \o ToStr(p.t)
                      ELSE ToStr(p.w) \o <<"-">> \o ToStr(p.l)

getPreGameRecord(rec, res) ==
    IF rec = <<>> THEN <<>>
    ELSE LET parts == ParseParts(rec)
         IN  IF \E i \in 1..Len(parts) : isNaN(parts[i]) THEN rec
             ELSE LET p == RevertedParts(parts, res)
                  IN  IF GreaterThanZero(p.t)
                      THEN ToStr(p.w) \o <<"-">> \o ToStr(p.l) \o <<"-">> \o ToStr(p.t)
                      ELSE ToStr(p.w) \o <<"-">> \o ToStr(p.l)

-----------------------------------------------------------------------------
(* Inputs of the record reverter *)

Counts == 0..MaxCount

\* wins-losses, and wins-losses-ties with the ties part written out
TwoPart(w, l) == NatToString(w) \o <<"-">> \o NatToString(l)
ThreePart(w, l, t) == TwoPart(w, l) \o <<"-">> \o NatToString(t)

\* the serialization of a record: the ties part only when there are ties
Canonical(w, l, t) == IF t > 0 THEN ThreePart(w, l, t) ELSE TwoPart(w, l)

GeneratedRecords ==
    {TwoPart(w, l) : w \in Counts, l \in Counts}
        \cup {ThreePart(w, l, t) : w \in Counts, l \in Counts, t \in 0..2}

Chars == {"0", "1", "-", "T", " ", "+"}

ArbitraryRecords == UNION {[1..n -> Chars] : n \in 0..MaxLen}

\* the post-game record of a team: one game added to its pre-game record
AddGame(p, res) ==
    <<p[1] + (IF res = "win" THEN 1 ELSE 0),
      p[2] + (IF res = "loss" THEN 1 ELSE 0),
      p[3] + (IF res = "tie" THEN 1 ELSE 0)>>

ScheduleIdle ==
    /\ continuousWeek = 0
    /\ weekData = [ok |-> FALSE, week |-> 0, seasonType |-> 0]
    /\ scheduleResponse = [ok |-> FALSE, events |-> <<>>]
    /\ currentWeekResponse = [status |-> "notOk", events |-> <<>>]
    /\ teamResults = <<>>
    /\ currentWeekRequests = <<>>
    /\ games = <<>>
    /\ isRevealed = <<>>
    /\ pc = "idle"

EngineIdle ==
    /\ trace = <<>>
    /\ homeScore = 0
    /\ awayScore = 0
    /\ isOvertime = FALSE
    /\ state = "pre"
    /\ excitement = 0
    /\ scored = FALSE

\* the App before it is mounted
AppIdle ==
    /\ appCurrentWeek = Null
    /\ viewMode = "weekly"
    /\ seasonTopGames = <<>>
    /\ loadingSchedule = TRUE
    /\ loads = <<>>
    /\ seasonLoads = <<>>
    /\ queue = [stage |-> "idle"]
    /\ cancelled = <<>>
    /\ requests = <<>>
    /\ clicks = 0

RecordInit ==
    /\ ScheduleIdle
    /\ EngineIdle
    /\ AppIdle
    /\ result \in Results
    /\ reverted = <<>>
    /\ preGameRecord = <<>>
    /\ called = {}
    /\ \/ /\ pre = <<>>
          /\ record \in GeneratedRecords \cup ArbitraryRecords
       \/ /\ pre \in Counts \X Counts \X (0..2)
          /\ record = <<>>

\* a game is played: the listed record becomes the post-game record
PlayGame ==
    /\ pre # <<>>
    /\ record = <<>>
    /\ LET post == AddGame(pre, result)
       IN  record' = Canonical(post[1], post[2], post[3])
    /\ UNCHANGED <<pre, result, reverted, preGameRecord, called, scheduleVars,
                   engineVars, appVars>>

CallRevertRecord ==
    /\ pre # <<>> => record # <<>>
    /\ "revertRecord" \notin called
    /\ reverted' = revertRecord(record, result)
    /\ called' = called \cup {"revertRecord"}
    /\ UNCHANGED <<pre, record, result, preGameRecord, scheduleVars, engineVars,
                   appVars>>

CallGetPreGameRecord ==
    /\ pre # <<>> => record # <<>>
    /\ "getPreGameRecord" \notin called
    /\ preGameRecord' = getPreGameRecord(record, result)
    /\ called' = called \cup {"getPreGameRecord"}
    /\ UNCHANGED <<pre, record, result, reverted, scheduleVars, engineVars, appVars>>

RecordNext == PlayGame \/ CallRevertRecord \/ CallGetPreGameRecord

SpecRecord == RecordInit /\ [][RecordNext]_vars

-----------------------------------------------------------------------------
(* Week numbering *)

RegularSeasonWeeks == 18

\* data.week?.number || 1 and data.season?.type || 2: 0 stands for a missing
\* (or zero) field; a failed request gives week 1 of the regular season
fetchCurrentWeek(data) ==
    IF ~data.ok THEN [week |-> 1, seasonType |-> 2]
    ELSE LET apiWeek == IF data.week = 0 THEN 1 ELSE data.week
             apiSeasonType == IF data.seasonType = 0 THEN 2 ELSE data.seasonType
         IN  [week |-> IF apiSeasonType = 3
                       THEN apiWeek + RegularSeasonWeeks ELSE apiWeek,
              seasonType |-> apiSeasonType]

\* the API week and season type of a continuous week
\* mutant: week 18 is taken for the first postseason week
getApiParams_EarlyPostseason(cw) ==
    IF cw < RegularSeasonWeeks THEN [seasonType |-> 2, week |-> cw]
    ELSE [seasonType |-> 3, week |-> cw - RegularSeasonWeeks]

getApiParams(cw) ==
    IF cw <= RegularSeasonWeeks THEN [seasonType |-> 2, week |-> cw]
    ELSE [seasonType |-> 3, week |-> cw - RegularSeasonWeeks]

-----------------------------------------------------------------------------
(* fetchSchedule: ESPN events to Games *)

\* parseInt(x.score || '0')
ScoreValue(str) == parseInt(IF str = <<>> THEN <<"0">> ELSE str)

Greater(a, b) == a.kind = "number" /\ b.kind = "number" /\ a.val > b.val
Less(a, b) == a.kind = "number" /\ b.kind = "number" /\ a.val < b.val

\* the sum of the parts of a summary
RECURSIVE SumParts(_)
SumParts(parts) ==
    IF parts = <<>> THEN 0 ELSE Head(parts).val + SumParts(Tail(parts))

SumsToSeason(summary) ==
    /\ summary # <<>>
    /\ LET parts == ParseParts(summary)
       IN  /\ Len(parts) >= 2
           /\ \A i \in 1..Len(parts) : ~isNaN(parts[i])
           /\ SumParts(parts) = 17

\* the first record summary of 17 games, else the first summary, else ''
getRegularSeasonRecord(records) ==
    IF records = <<>> THEN <<>>
    ELSE LET full == {i \in 1..Len(records) : SumsToSeason(records[i])}
         IN  IF full # {}
             THEN records[CHOOSE i \in full : \A j \in full : i <= j]
             ELSE records[1]

\* statusDetail.includes("Final"), statusDetail.includes("OT"): the short
\* details ESPN sends are kept whole
FinalDetails == {"Final", "Final/OT"}

\* one ESPN event as a Game; the fields that are only displayed (logos,
\* kick-off labels, odds, broadcaster, spoilerData) are left out
ToGame(event) ==
    LET isLive == event.state = "in"
        isFinal == event.state = "post"
        isUpcoming == event.state \in {"pre", "scheduled"} \/ (~isLive /\ ~isFinal)
    IN  [id |-> event.id,
         homeTeam |-> event.home.teamName,
         awayTeam |-> event.away.teamName,
         homeScore |-> ScoreValue(event.home.score),
         awayScore |-> ScoreValue(event.away.score),
         homeRecord |-> getRegularSeasonRecord(event.home.records),
         awayRecord |-> getRegularSeasonRecord(event.away.records),
         status |-> IF isUpcoming THEN "Upcoming"
                    ELSE IF event.shortDetail \in FinalDetails THEN "Final"
                    ELSE event.shortDetail,
         excitementScore |-> IF isUpcoming THEN Num(0) ELSE Null,
         isEstimated |-> FALSE,
         isUpcoming |-> isUpcoming,
         isLive |-> isLive]

-----------------------------------------------------------------------------
(* adjustRecordsForFutureWeek *)

\* competitors.find(c => c.id !== competitor.id), <<>> when there is none
Opponent(competitors, competitor) ==
    LET others == {i \in 1..Len(competitors) : competitors[i].id # competitor.id}
    IN  IF others = {} THEN <<>>
        ELSE <<competitors[CHOOSE i \in others : \A j \in others : i <= j]>>

\* mutant: the opponent is looked up with === instead of !==
CompetitorResult_SameId(competitors, competitor) ==
    LET same == {i \in 1..Len(competitors) : competitors[i].id = competitor.id}
        opp == competitors[CHOOSE i \in same : \A j \in same : i <= j]
        score == ScoreValue(competitor.score)
        opponentScore == ScoreValue(opp.score)
    IN  IF Greater(score, opponentScore) THEN "win"
        ELSE IF Less(score, opponentScore) THEN "loss"
        ELSE "tie"

CompetitorResult(competitors, competitor) ==
    LET opp == Opponent(competitors, competitor)
        score == ScoreValue(competitor.score)
        opponentScore == ScoreValue(IF opp = <<>> THEN <<>> ELSE opp[1].score)
    IN  IF Greater(score, opponentScore) THEN "win"
        ELSE IF Less(score, opponentScore) THEN "loss"
        ELSE "tie"

\* teamResults.set(teamName, result)
MapSet(map, key, value) ==
    [k \in DOMAIN map \cup {key} |-> IF k = key THEN value ELSE map[k]]

\* the inner loop over the competitors of one event, from competitor k on
RECURSIVE SetCompetitors(_, _, _)
SetCompetitors(map, competitors, k) ==
    IF k > Len(competitors) THEN map
    ELSE IF competitors[k].teamName = "" THEN SetCompetitors(map, competitors, k + 1)
    ELSE SetCompetitors(
             MapSet(map, competitors[k].teamName,
                    CompetitorResult(competitors, competitors[k])),
             competitors, k + 1)

\* mutant: games that are not completed are processed too
RECURSIVE TeamResultsFrom_AnyState(_, _, _)
TeamResultsFrom_AnyState(map, events, n) ==
    IF n > Len(events) THEN map
    ELSE TeamResultsFrom_AnyState(SetCompetitors(map, events[n].competitors, 1),
                                  events, n + 1)

\* the outer loop over the current week's events, from event n on
RECURSIVE TeamResultsFrom(_, _, _)
TeamResultsFrom(map, events, n) ==
    IF n > Len(events) THEN map
    ELSE IF events[n].state # "post" THEN TeamResultsFrom(map, events, n + 1)
    ELSE TeamResultsFrom(SetCompetitors(map, events[n].competitors, 1), events, n + 1)

\* whether the request for the current week's games is made and answered OK
AdjustmentRuns(viewingWeek, currentWeek, response) ==
    /\ ~(currentWeek > RegularSeasonWeeks)
    /\ ~(viewingWeek > RegularSeasonWeeks \/ viewingWeek <= currentWeek)
    /\ response.status = "ok"

BuiltTeamResults(viewingWeek, currentWeek, response) ==
    IF AdjustmentRuns(viewingWeek, currentWeek, response)
    THEN TeamResultsFrom(<<>>, response.events, 1)
    ELSE <<>>

AdjustGame(game, map) ==
    [game EXCEPT
        !.homeRecord = IF game.homeTeam \in DOMAIN map
                       THEN revertRecord(game.homeRecord, map[game.homeTeam])
                       ELSE game.homeRecord,
        !.awayRecord = IF game.awayTeam \in DOMAIN map
                       THEN revertRecord(game.awayRecord, map[game.awayTeam])
                       ELSE game.awayRecord]

\* the requests for the current week's games that adjustRecordsForFutureWeek
\* sends: the API parameters of the current week, once the early returns are
\* passed
CurrentWeekRequests(viewingWeek, currentWeek) ==
    IF currentWeek > RegularSeasonWeeks THEN <<>>
    ELSE IF viewingWeek > RegularSeasonWeeks \/ viewingWeek <= currentWeek THEN <<>>
    ELSE <<getApiParams(currentWeek)>>

\* mutant: the current week itself is taken for a future week
adjustRecordsForFutureWeek_CurrentWeekToo(gs, viewingWeek, currentWeek, response) ==
    IF currentWeek > RegularSeasonWeeks THEN gs
    ELSE IF viewingWeek > RegularSeasonWeeks \/ viewingWeek < currentWeek THEN gs
    ELSE IF response.status # "ok" THEN gs
    ELSE LET map == TeamResultsFrom(<<>>, response.events, 1)
         IN  [i \in 1..Len(gs) |-> AdjustGame(gs[i], map)]

adjustRecordsForFutureWeek(gs, viewingWeek, currentWeek, response) ==
    IF currentWeek > RegularSeasonWeeks THEN gs
    ELSE IF viewingWeek > RegularSeasonWeeks \/ viewingWeek <= currentWeek THEN gs
    ELSE IF response.status # "ok" THEN gs
    ELSE LET map == TeamResultsFrom(<<>>, response.events, 1)
         IN  [i \in 1..Len(gs) |-> AdjustGame(gs[i], map)]

fetchSchedule(week, response, data, currentResponse) ==
    IF ~response.ok THEN <<>>
    ELSE adjustRecordsForFutureWeek(
             [i \in 1..Len(response.events) |-> ToGame(response.events[i])],
             week, fetchCurrentWeek(data).week, currentResponse)

-----------------------------------------------------------------------------
(* GameCard *)

\* the result getDisplayRecord computes for the home or the away team
CardResult(game, isHome) ==
    LET homeWon == Greater(game.homeScore, game.awayScore)
        awayWon == Greater(game.awayScore, game.homeScore)
        tied == game.homeScore = game.awayScore /\ game.homeScore.kind = "number"
        res == IF isHome
               THEN (IF homeWon THEN "win" ELSE IF awayWon THEN "loss" ELSE "tie")
               ELSE (IF awayWon THEN "win" ELSE IF homeWon THEN "loss" ELSE "tie")
    IN  IF tied THEN "tie" ELSE res

getDisplayRecord(game, currentRecord, isHome, revealed) ==
    IF game.status # "Final" THEN currentRecord
    ELSE IF revealed THEN currentRecord
    ELSE getPreGameRecord(currentRecord, CardResult(game, isHome))

\* mutant: the scores are rendered whether or not the card is revealed
GameCard_ScoresAlways(game, revealed) ==
    LET isHomeWinner == revealed /\ Greater(game.homeScore, game.awayScore)
        isAwayWinner == revealed /\ Greater(game.awayScore, game.homeScore)
    IN  [awayName |-> IF revealed
                      THEN (IF isAwayWinner THEN "text-white" ELSE "text-neutral-500")
                      ELSE "text-neutral-200",
         homeName |-> IF revealed
                      THEN (IF isHomeWinner THEN "text-white" ELSE "text-neutral-500")
                      ELSE "text-neutral-200",
         awayScore |-> <<[value |-> game.awayScore,
                          class |-> IF isAwayWinner THEN "text-white"
                                    ELSE "text-neutral-600"]>>,
         homeScore |-> <<[value |-> game.homeScore,
                          class |-> IF isHomeWinner THEN "text-white"
                                    ELSE "text-neutral-600"]>>,
         button |-> IF game.isUpcoming THEN <<>>
                    ELSE <<IF revealed THEN "Hide Score" ELSE "Reveal Score">>]

\* what a card renders of the result: the colour of each team's name, each
\* team's score (<<>> when it is not rendered) and the reveal button
GameCard(game, revealed) ==
    LET isHomeWinner == revealed /\ Greater(game.homeScore, game.awayScore)
        isAwayWinner == revealed /\ Greater(game.awayScore, game.homeScore)
    IN  [awayName |-> IF revealed
                      THEN (IF isAwayWinner THEN "text-white" ELSE "text-neutral-500")
                      ELSE "text-neutral-200",
         homeName |-> IF revealed
                      THEN (IF isHomeWinner THEN "text-white" ELSE "text-neutral-500")
                      ELSE "text-neutral-200",
         awayScore |-> IF revealed
                       THEN <<[value |-> game.awayScore,
                               class |-> IF isAwayWinner THEN "text-white"
                                         ELSE "text-neutral-600"]>>
                       ELSE <<>>,
         homeScore |-> IF revealed
                       THEN <<[value |-> game.homeScore,
                               class |-> IF isHomeWinner THEN "text-white"
                                         ELSE "text-neutral-600"]>>
                       ELSE <<>>,
         button |-> IF game.isUpcoming THEN <<>>
                    ELSE <<IF revealed THEN "Hide Score" ELSE "Reveal Score">>]

\* the record a card shows under a team's name
DisplayedRecord(i, isHome) ==
    getDisplayRecord(games[i],
                     IF isHome THEN games[i].homeRecord ELSE games[i].awayRecord,
                     isHome, isRevealed[i])

-----------------------------------------------------------------------------
(* Inputs of fetchSchedule *)

TeamNames == <<"Bears", "Lions", "Packers", "Vikings", "Jets", "Bills", "Colts">>
TeamCount == 2 * MaxEvents + 1

\* ESPN's answers to fetchCurrentWeek (week number, season type; <<>> for a
\* failed request) with the week that is viewed
WeekCases ==
    {<<<<17, 2>>, 17>>, <<<<17, 2>>, 18>>, <<<<18, 2>>, 17>>, <<<<18, 2>>, 19>>,
     <<<<1, 3>>, 18>>, <<<<1, 3>>, 19>>, <<<<2, 3>>, 19>>, <<<<>>, 18>>}

WeekDataOf(w) ==
    IF w = <<>> THEN [ok |-> FALSE, week |-> 0, seasonType |-> 0]
    ELSE [ok |-> TRUE, week |-> w[1], seasonType |-> w[2]]

Score_0 == <<"0">>
Score_3 == <<"3">>
Score_10 == <<"1", "0">>

\* state, short detail, home score, away score of a viewed week's event
ViewedOutcomes ==
    {<<"pre", "9/7 - 1:00 PM EDT", Score_0, Score_0>>,
     <<"in", "3:12 - 4th", Score_3, Score_10>>,
     <<"in", "3:12 - 4th", Score_3, Score_3>>,
     <<"post", "Final", Score_10, Score_3>>,
     <<"post", "Final", Score_3, Score_10>>,
     <<"post", "Final", Score_3, Score_3>>,
     <<"post", "Final/OT", Score_10, Score_3>>,
     <<"post", "Postponed", Score_0, Score_0>>}

\* state, home score, away score of a current week's event
CurrentOutcomes ==
    {<<"pre", Score_0, Score_0>>,
     <<"in", Score_10, Score_3>>,
     <<"post", Score_10, Score_3>>,
     <<"post", Score_3, Score_10>>,
     <<"post", Score_3, Score_3>>,
     <<"post", <<>>, <<>>>>}

\* the records arrays ESPN lists for a team
SampleRecords ==
    <<  <<TwoPart(2, 1)>>,
        <<ThreePart(0, 0, 1)>>,
        <<>>,
        <<TwoPart(13, 5), TwoPart(12, 5)>>  >>

RecordLists ==
    {<<SampleRecords[i], SampleRecords[(i % Len(SampleRecords)) + 1]>> :
        i \in 1..Len(SampleRecords)}

\* a viewed week of two games: Bears and Lions, then Packers at Vikings; one
\* game finished at most
ViewedPairs ==
    {<<[id |-> "401", state |-> o[1][1], shortDetail |-> o[1][2],
        home |-> [teamName |-> TeamNames[1], score |-> o[1][3], records |-> rl[1]],
        away |-> [teamName |-> TeamNames[2], score |-> o[1][4], records |-> rl[2]]],
       [id |-> "402", state |-> o[2][1], shortDetail |-> o[2][2],
        home |-> [teamName |-> TeamNames[4], score |-> o[2][3], records |-> rl[2]],
        away |-> [teamName |-> TeamNames[3], score |-> o[2][4], records |-> rl[1]]]>> :
        rl \in RecordLists,
        o \in {<<<<"pre", "9/7 - 1:00 PM EDT", Score_0, Score_0>>,
                 <<"pre", "9/7 - 4:25 PM EDT", Score_0, Score_0>>>>,
               <<<<"post", "Final", Score_10, Score_3>>,
                 <<"pre", "9/7 - 4:25 PM EDT", Score_0, Score_0>>>>,
               <<<<"pre", "9/7 - 1:00 PM EDT", Score_0, Score_0>>,
                 <<"post", "Final", Score_3, Score_10>>>>}}

ViewedEvent(h, o, rl) ==
    [id |-> "401", state |-> o[1], shortDetail |-> o[2],
     home |-> [teamName |-> TeamNames[h], score |-> o[3], records |-> rl[1]],
     away |-> [teamName |-> TeamNames[(h % TeamCount) + 1], score |-> o[4],
               records |-> rl[2]]]

\* the k-th event of the current week: team 2k-1 hosts team 2k
CurrentEvent(k, o) ==
    [state |-> o[1],
     competitors |->
        <<[id |-> 2 * k - 1, teamName |-> TeamNames[2 * k - 1], score |-> o[2]],
          [id |-> 2 * k, teamName |-> TeamNames[2 * k], score |-> o[3]]>>]

CurrentEventLists ==
    UNION {{[k \in 1..n |-> CurrentEvent(k, f[k])] : f \in [1..n -> CurrentOutcomes]} :
              n \in 0..MaxEvents}

RecordIdle ==
    /\ pre = <<>>
    /\ record = <<>>
    /\ result = "win"
    /\ reverted = <<>>
    /\ preGameRecord = <<>>
    /\ called = {}

ScheduleInit ==
    /\ RecordIdle
    /\ EngineIdle
    /\ AppIdle
    /\ \E wc \in WeekCases : weekData = WeekDataOf(wc[1]) /\ continuousWeek = wc[2]
    /\ scheduleResponse \in
          {[ok |-> FALSE, events |-> <<>>], [ok |-> TRUE, events |-> <<>>]}
              \cup {[ok |-> TRUE, events |-> <<ViewedEvent(h, o, rl)>>] :
                       h \in 1..TeamCount, o \in ViewedOutcomes, rl \in RecordLists}
              \cup {[ok |-> TRUE, events |-> es] : es \in ViewedPairs}
    /\ currentWeekResponse \in
          {[status |-> "notOk", events |-> <<>>], [status |-> "throws", events |-> <<>>]}
              \cup {[status |-> "ok", events |-> es] : es \in CurrentEventLists}
    /\ teamResults = <<>>
    /\ currentWeekRequests = <<>>
    /\ games = <<>>
    /\ isRevealed = <<>>
    /\ pc = "loading"

\* fetchSchedule returns and the cards are mounted, each hidden
FetchSchedule ==
    /\ pc = "loading"
    /\ games' = fetchSchedule(continuousWeek, scheduleResponse, weekData,
                              currentWeekResponse)
    /\ teamResults' =
          IF scheduleResponse.ok
          THEN BuiltTeamResults(continuousWeek, fetchCurrentWeek(weekData).week,
                                currentWeekResponse)
          ELSE <<>>
    /\ currentWeekRequests' =
          IF scheduleResponse.ok
          THEN CurrentWeekRequests(continuousWeek, fetchCurrentWeek(weekData).week)
          ELSE <<>>
    /\ isRevealed' = [i \in 1..Len(games') |-> FALSE]
    /\ pc' = "shown"
    /\ UNCHANGED <<recordVars, engineVars, appVars, continuousWeek, weekData,
                   scheduleResponse, currentWeekResponse>>

\* the reveal button of a card, rendered only for a game that is not upcoming
ToggleReveal(i) ==
    /\ pc = "shown"
    /\ ~games[i].isUpcoming
    /\ isRevealed' = [isRevealed EXCEPT ![i] = ~isRevealed[i]]
    /\ UNCHANGED <<recordVars, engineVars, appVars, continuousWeek, weekData,
                   scheduleResponse, currentWeekResponse, teamResults,
                   currentWeekRequests, games, pc>>

ScheduleNext ==
    \/ FetchSchedule
    \/ \E i \in 1..Len(games) : ToggleReveal(i)

SpecSchedule == ScheduleInit /\ [][ScheduleNext]_vars

-----------------------------------------------------------------------------
(* Excitement scoring engine (design sections 4.1 to 4.5).                 *)
(* Probabilities are integers in hundredths (50 is 0.50); scores and       *)
(* bonuses are integers in 1/400 (Tenths(50) is 5.0), so that every        *)
(* product and sum of the algorithm is exact.                              *)

Tenths(n) == 40 * n

Abs(x) == IF x < 0 THEN -x ELSE x

Minimum(S) == CHOOSE x \in S : \A y \in S : x <= y
Maximum(S) == CHOOSE x \in S : \A y \in S : y <= x

\* 4.1: a value greater than 2.0 is a percentage
Normalize(raw) == IF raw > 200 THEN raw \div 100 ELSE raw

\* mutant: the upper bound of the clamp is missing
Clamp_NoUpper(x) == IF x < Tenths(10) THEN Tenths(10) ELSE x

\* 4.5: clamp to [1.0, 10.0]
Clamp(x) ==
    IF x < Tenths(10) THEN Tenths(10) ELSE IF x > Tenths(100) THEN Tenths(100) ELSE x

\* 4.2: the margin and total-points adjustments of the fallback estimate
FallbackMarginAdjustment(margin) ==
    IF margin = 0 THEN Tenths(40)
    ELSE IF margin <= 3 THEN Tenths(30)
    ELSE IF margin <= 8 THEN Tenths(20)
    ELSE IF margin <= 14 THEN Tenths(5)
    ELSE IF margin > 24 THEN -Tenths(30)
    ELSE 0

FallbackTotalAdjustment(total) ==
    IF total > 60 THEN Tenths(10)
    ELSE IF total > 45 THEN Tenths(5)
    ELSE IF total < 24 THEN -Tenths(10)
    ELSE 0

\* mutant: overtime adds 2.0 instead of raising the estimate to 8.0
OvertimeFloor_AddsBonus(x, overtime) == IF overtime THEN x + Tenths(20) ELSE x

\* 4.2: in overtime the estimate is raised to 8.0 if lower
OvertimeFloor(x, overtime) ==
    IF overtime /\ x < Tenths(80) THEN Tenths(80) ELSE x

\* mutant: the margin boundaries are taken one point too wide
FallbackEstimate_WideMargins(home, away, overtime) ==
    Clamp(OvertimeFloor(Tenths(50) + FallbackMarginAdjustment(Abs(home - away) - 1)
                            + FallbackTotalAdjustment(home + away),
                        overtime))

\* 4.2: the fallback estimate
FallbackEstimate(home, away, overtime) ==
    Clamp(OvertimeFloor(Tenths(50) + FallbackMarginAdjustment(Abs(home - away))
                            + FallbackTotalAdjustment(home + away),
                        overtime))

\* 4.3: the time weight of step i of n, doubled (0.5 is 1)
TimeWeight2(i, n) ==
    IF 100 * i > 96 * n THEN 30
    ELSE IF 100 * i > 90 * n THEN 10
    ELSE IF 100 * i > 70 * n THEN 6
    ELSE IF 100 * i < 25 * n THEN 1
    ELSE 2

\* the sign of (probability - 0.5)
Side(p) == IF p > 50 THEN 1 ELSE IF p < 50 THEN -1 ELSE 0

\* 4.3: what the iteration over steps 1..N-1 tracks.  prob[i + 1] is the
\* normalized home probability at index i; running minima start at 1.0 and
\* the running maximum at 0.0
TraceStats(tr, home, away) ==
    LET n == Len(tr)
        prob == [k \in 1..n |-> Normalize(tr[k])]
        homeWon == home > away
        winner == [k \in 1..n |-> IF homeWon THEN prob[k] ELSE 100 - prob[k]]
        steps == 1..(n - 1)
        late == {i \in steps : i >= (90 * n) \div 100}
    IN  [allMin |-> Minimum({100} \cup {winner[i + 1] : i \in steps}),
         allMax |-> Maximum({0} \cup {winner[i + 1] : i \in steps}),
         lateMin |-> Minimum({100} \cup {winner[i + 1] : i \in late}),
         lateLeadChanges |->
            Cardinality({i \in late : Side(prob[i]) * Side(prob[i + 1]) = -1}),
         garbage |-> Cardinality({i \in steps : prob[i + 1] < 5 \/ prob[i + 1] > 95}),
         volatility2 |->
            LET RECURSIVE Sum(_)
                Sum(i) == IF i < 1 THEN 0
                          ELSE Abs(prob[i + 1] - prob[i]) * TimeWeight2(i, n) + Sum(i - 1)
            IN  Sum(n - 1)]

\* 4.3: base score 2.0 + 1.5 x weighted volatility
BaseScore(stats) == Tenths(20) + 3 * stats.volatility2

\* 4.4: the sum of the bonuses and penalties
Adjustments(stats, n, home, away, overtime) ==
    LET margin == Abs(home - away)
    IN  (IF stats.allMin <= 5 THEN Tenths(20)
         ELSE IF stats.allMin <= 15 THEN Tenths(15)
         ELSE IF stats.allMin <= 25 THEN Tenths(10)
         ELSE 0)
        + (IF stats.allMax <= 90 THEN Tenths(10) ELSE 0)
        + (IF stats.lateMin < 60 THEN Tenths(15) ELSE 0)
        + (IF stats.lateMin < 50 THEN Tenths(15) ELSE 0)
        + (IF stats.lateLeadChanges > 0
           THEN Tenths(10) + Tenths(5) * stats.lateLeadChanges ELSE 0)
        + (IF margin <= 3 THEN Tenths(10) ELSE IF margin <= 7 THEN Tenths(5) ELSE 0)
        + (IF margin > 16 THEN -Tenths(20) ELSE 0)
        + (IF 2 * stats.garbage > n THEN -Tenths(20) ELSE 0)
        + (IF home + away > 60 THEN Tenths(5) ELSE 0)
        + (IF overtime THEN Tenths(20) ELSE 0)

\* mutant: the trace path returns the adjusted value without clamping it
TraceScore_Unclamped(tr, home, away, overtime) ==
    LET stats == TraceStats(tr, home, away)
    IN  BaseScore(stats) + Adjustments(stats, Len(tr), home, away, overtime)

TraceScore(tr, home, away, overtime) ==
    LET stats == TraceStats(tr, home, away)
    IN  Clamp(BaseScore(stats) + Adjustments(stats, Len(tr), home, away, overtime))

\* the engine: 0.0 before the game, the fallback estimate without a trace
ExcitementScore(tr, home, away, overtime, st) ==
    IF st = "pre" THEN 0
    ELSE IF Len(tr) < 1 THEN FallbackEstimate(home, away, overtime)
    ELSE TraceScore(tr, home, away, overtime)

-----------------------------------------------------------------------------
(* Inputs of the engine *)

States == {"pre", "in", "post"}

\* raw samples: fractions, a percentage (73), and a value out of scale (1.5)
ProbValues == {0, 4, 50, 96, 150, 7300}

ShortTraces == UNION {[1..n -> ProbValues] : n \in 1..MaxTraceLen}

\* traces of 30 samples that differ in the three samples of the final 10%
LongTraces ==
    {[k \in 1..30 |-> IF k <= 27 THEN 50 ELSE tail[k - 27]] :
        tail \in [1..3 -> ProbValues]}

\* traces of 30 samples that stay at one level after the baseline and move
\* only at the final step
Levels == {11, 50, 89, 94}
FinalSamples == {4, 5, 6, 10, 49, 51, 88, 90, 91, 95, 96}

SteadyTraces ==
    {[k \in 1..30 |-> IF k = 1 THEN 50 ELSE IF k <= 29 THEN lvl ELSE f] :
        lvl \in Levels, f \in FinalSamples}

\* the trace of the end-to-end scenario (design section 8)
ScenarioTrace == <<50, 52, 80, 30, 5, 92>>

TraceScores == {<<24, 20>>, <<20, 23>>, <<17, 17>>, <<45, 10>>, <<35, 31>>}

EngineInit ==
    /\ RecordIdle
    /\ ScheduleIdle
    /\ AppIdle
    /\ isOvertime \in BOOLEAN
    /\ state \in States
    /\ excitement = 0
    /\ scored = FALSE
    /\ \/ /\ trace = <<>>
          /\ homeScore \in 0..MaxScore
          /\ awayScore \in 0..MaxScore
       \/ /\ trace \in ShortTraces \cup LongTraces \cup SteadyTraces \cup {ScenarioTrace}
          /\ \E sc \in TraceScores : homeScore = sc[1] /\ awayScore = sc[2]

\* one call of the engine
Score ==
    /\ ~scored
    /\ excitement' = ExcitementScore(trace, homeScore, awayScore, isOvertime, state)
    /\ scored' = TRUE
    /\ UNCHANGED <<recordVars, scheduleVars, appVars, trace, homeScore, awayScore,
                   isOvertime, state>>

EngineNext == Score

SpecEngine == EngineInit /\ [][EngineNext]_vars

-----------------------------------------------------------------------------
(* App: week numbering and navigation *)

MaxGames == 2       \* events ESPN lists for a week: 0..MaxGames
MaxClicks == 2      \* week and view-mode changes of a session: 0..MaxClicks

LastWeek == 23

\* the onWeekChange calls of a click on the previous button
handlePrev(week) == IF week > 1 THEN <<week - 1>> ELSE <<>>

\* mutant: the next button is not capped at the Super Bowl
handleNext_NoCap(week) == <<week + 1>>

\* the onWeekChange calls of a click on the next button
handleNext(week) == IF week < LastWeek THEN <<week + 1>> ELSE <<>>

\* the WeekInfo handleWeekChange sets (the label is left out)
handleWeekChange(weekInfo, newContinuousWeek) ==
    IF weekInfo = Null THEN weekInfo
    ELSE [week |-> newContinuousWeek,
          seasonType |-> IF newContinuousWeek > RegularSeasonWeeks THEN 3 ELSE 2]

-----------------------------------------------------------------------------
(* App: schedule loading, progressive loading queue, season view *)

\* the sort of loadSchedule: live games, then finished games, then upcoming
\* games, each group in the order fetched
sortGames(gs) ==
    SelectSeq(gs, LAMBDA g : g.isLive)
        \o SelectSeq(gs, LAMBDA g : ~g.isLive /\ ~g.isUpcoming)
        \o SelectSeq(gs, LAMBDA g : ~g.isLive /\ g.isUpcoming)

\* the sentinel -1: checked, unavailable
Unavailable == Num(-Tenths(10))

\* mutant: only upcoming games return early
SendsRequest_LiveGames(game) == ~game.isUpcoming

\* whether fetchGameExcitement sends a request to the backend
SendsRequest(game) == ~(game.isUpcoming \/ game.isLive)

fetchGameExcitement(game, outcome) ==
    IF ~SendsRequest(game) THEN [score |-> Null, isEstimated |-> FALSE]
    ELSE IF outcome.kind = "ok" THEN [score |-> Num(outcome.score), isEstimated |-> FALSE]
    ELSE [score |-> Unavailable, isEstimated |-> FALSE]

\* games.findIndex(g => g.excitementScore === null && !g.isUpcoming && !g.isLive)
NeedsScore(g) == g.excitementScore = Null /\ ~g.isUpcoming /\ ~g.isLive

\* the queue effect: nothing in season mode, else the first game that needs
\* a score is picked and the delay starts
processNextGame(gs, mode) ==
    IF mode = "season" THEN [stage |-> "idle"]
    ELSE LET need == {i \in 1..Len(gs) : NeedsScore(gs[i])}
         IN  IF need = {} THEN [stage |-> "idle"]
             ELSE [stage |-> "delay",
                   game |-> gs[CHOOSE i \in need : \A j \in need : i <= j]]

\* the updater handed to setGames
UpdateScore(prevGames, gameToProcess, res) ==
    LET same == {i \in 1..Len(prevGames) : prevGames[i].id = gameToProcess.id}
    IN  IF same = {} THEN prevGames
        ELSE [prevGames EXCEPT
                 ![CHOOSE i \in same : \A j \in same : i <= j] =
                     [@ EXCEPT !.excitementScore = res.score,
                               !.isEstimated = res.isEstimated]]

\* mutant: the answer is applied whether or not the effect was cleaned up
ApplyResult_NoMountedCheck(prevGames, isMounted, gameToProcess, res) ==
    UpdateScore(prevGames, gameToProcess, res)

\* the answer of fetchGameExcitement reaches processNextGame: if
\* (!isMounted) return, else setGames with the updater
ApplyResult(prevGames, isMounted, gameToProcess, res) ==
    IF ~isMounted THEN prevGames
    ELSE UpdateScore(prevGames, gameToProcess, res)

\* the cleanup of the queue effect (isMounted = false): a request it has in
\* flight stays in flight
Cleanup(q, inFlight) ==
    IF q.stage = "fetch" THEN Append(inFlight, q.game) ELSE inFlight

\* (g.excitementScore || 0)
ScoreOrZero(g) ==
    IF g.excitementScore.kind = "number" THEN g.excitementScore.val ELSE 0

\* sort((a, b) => (b.excitementScore || 0) - (a.excitementScore || 0)): stable
RECURSIVE InsertByScore(_, _)
InsertByScore(sorted, g) ==
    IF sorted = <<>> THEN <<g>>
    ELSE IF ScoreOrZero(Head(sorted)) >= ScoreOrZero(g)
         THEN <<Head(sorted)>> \o InsertByScore(Tail(sorted), g)
         ELSE <<g>> \o sorted

RECURSIVE SortByScore(_, _)
SortByScore(gs, n) ==
    IF n = 0 THEN <<>> ELSE InsertByScore(SortByScore(gs, n - 1), gs[n])

TopCount == 10

\* slice(0, 10)
Slice(gs) == SubSeq(gs, 1, IF Len(gs) < TopCount THEN Len(gs) ELSE TopCount)

\* weeklySchedules.flat()
RECURSIVE Flat(_)
Flat(lists) == IF lists = <<>> THEN <<>> ELSE Head(lists) \o Flat(Tail(lists))

-----------------------------------------------------------------------------
(* Inputs of the App: ESPN's and the backend's answers *)

\* ESPN's answers to fetchCurrentWeek (week number, season type): every
\* regular-season and postseason week, the preseason (type 1), the
\* off-season (type 4), missing fields, and <<>> for a failed request
AllWeekAnswers ==
    {<<w, 2>> : w \in 1..18} \cup {<<w, 3>> : w \in 1..5}
        \cup {<<2, 1>>, <<1, 4>>, <<0, 0>>, <<>>}

\* the answers the App is followed from: a failed request, the last
\* regular-season week, the Super Bowl week
AppWeekAnswers == {<<>>, <<18, 2>>, <<5, 3>>}

EventStates == {"pre", "in", "post"}

\* the k-th event ESPN lists for a week of a season type
AppEvent(params, k, st) ==
    [id |-> 1000 * params.seasonType + 10 * params.week + k,
     state |-> st,
     shortDetail |-> CASE st = "post" -> "Final"
                       [] st = "in" -> "3:12 - 4th"
                       [] OTHER -> "9/7 - 1:00 PM EDT",
     home |-> [teamName |-> TeamNames[2 * k - 1],
               score |-> IF st = "pre" THEN Score_0 ELSE Score_10,
               records |-> <<TwoPart(2, 1)>>],
     away |-> [teamName |-> TeamNames[2 * k],
               score |-> IF st = "pre" THEN Score_0 ELSE Score_3,
               records |-> <<TwoPart(1, 2)>>]]

\* ESPN's answers to a schedule request
AppResponses(params) ==
    {[ok |-> FALSE, events |-> <<>>]}
        \cup UNION {{[ok |-> TRUE,
                      events |-> [k \in 1..n |-> AppEvent(params, k, f[k])]] :
                        f \in [1..n -> EventStates]} : n \in 0..MaxGames}

\* the backend's answers: a score of the engine, a status that is not OK,
\* a request that throws
BackendOutcomes ==
    {[kind |-> "ok", score |-> Tenths(85)],
     [kind |-> "notOk", score |-> 0], [kind |-> "throws", score |-> 0]}

\* the App is mounted: fetchCurrentWeek is in flight, ESPN will answer ws
MountedWith(ws) ==
    /\ RecordIdle
    /\ EngineIdle
    /\ AppIdle
    /\ \E w \in ws : weekData = WeekDataOf(w)
    /\ continuousWeek = 0
    /\ scheduleResponse = [ok |-> FALSE, events |-> <<>>]
    /\ currentWeekResponse = [status |-> "notOk", events |-> <<>>]
    /\ teamResults = <<>>
    /\ currentWeekRequests = <<>>
    /\ games = <<>>
    /\ isRevealed = <<>>
    /\ pc = "idle"

AppInit == MountedWith(AppWeekAnswers)

RemoveAt(seq, i) == SubSeq(seq, 1, i - 1) \o SubSeq(seq, i + 1, Len(seq))

appFrame ==
    <<recordVars, engineVars, continuousWeek, weekData, scheduleResponse,
      currentWeekResponse, teamResults, currentWeekRequests, isRevealed, pc>>

\* the loadSchedule effect up to its await: the games are cleared, which
\* re-runs the queue effect on an empty list, and the request is in flight
StartLoadSchedule(weekInfo) ==
    /\ loadingSchedule' = TRUE
    /\ games' = <<>>
    /\ loads' = Append(loads, [week |-> weekInfo.week,
                               params |-> getApiParams(weekInfo.week)])
    /\ queue' = processNextGame(games', viewMode')
    /\ cancelled' = Cleanup(queue, cancelled)

\* the init effect: fetchCurrentWeek returns and the first schedule is loaded
FetchCurrentWeekReturns ==
    /\ appCurrentWeek = Null
    /\ appCurrentWeek' = fetchCurrentWeek(weekData)
    /\ viewMode' = viewMode
    /\ StartLoadSchedule(appCurrentWeek')
    /\ UNCHANGED <<appFrame, seasonTopGames, seasonLoads, requests, clicks>>

\* onWeekChange(week): handleWeekChange and the effects it triggers
WeekChange(calls) ==
    IF calls = <<>> THEN UNCHANGED vars
    ELSE /\ appCurrentWeek' = handleWeekChange(appCurrentWeek, calls[1])
         /\ viewMode' = viewMode
         /\ StartLoadSchedule(appCurrentWeek')
         /\ clicks' = clicks + 1
         /\ requests' = <<>>
         /\ UNCHANGED <<appFrame, seasonTopGames, seasonLoads>>

\* the navigation bar is rendered in weekly mode only
HandlePrev ==
    /\ appCurrentWeek # Null
    /\ viewMode = "weekly"
    /\ clicks < MaxClicks
    /\ WeekChange(handlePrev(appCurrentWeek.week))

HandleNext ==
    /\ appCurrentWeek # Null
    /\ viewMode = "weekly"
    /\ clicks < MaxClicks
    /\ WeekChange(handleNext(appCurrentWeek.week))

\* the Best of Season button: onViewModeChange and the effects it triggers
onViewModeChange ==
    /\ appCurrentWeek # Null
    /\ clicks' = clicks + 1
    /\ requests' = <<>>
    /\ IF viewMode = "weekly"
       THEN /\ viewMode' = "season"
            /\ queue' = processNextGame(games, viewMode')
            /\ cancelled' = Cleanup(queue, cancelled)
            /\ IF Len(seasonTopGames) > 0
               THEN loadingSchedule' = FALSE /\ seasonLoads' = seasonLoads
               ELSE /\ loadingSchedule' = TRUE
                    /\ seasonLoads' = Append(seasonLoads, appCurrentWeek.week)
            /\ UNCHANGED <<games, loads>>
       ELSE /\ viewMode' = "weekly"
            /\ StartLoadSchedule(appCurrentWeek)
            /\ UNCHANGED seasonLoads
    /\ UNCHANGED <<appFrame, appCurrentWeek, seasonTopGames>>

ToggleViewMode ==
    /\ clicks < MaxClicks
    /\ onViewModeChange

\* fetchSchedule of a loadSchedule call returns: the games are sorted and
\* set, and the queue effect runs on them
ScheduleReturns(i) ==
    /\ \E response \in AppResponses(loads[i].params) :
       \E fetchedGames \in {fetchSchedule(loads[i].week, response, weekData,
                                          [status |-> "notOk", events |-> <<>>])} :
          games' = sortGames(fetchedGames)
    /\ loadingSchedule' = FALSE
    /\ loads' = RemoveAt(loads, i)
    /\ queue' = processNextGame(games', viewMode)
    /\ cancelled' = Cleanup(queue, cancelled)
    /\ UNCHANGED <<appFrame, appCurrentWeek, viewMode, seasonTopGames, seasonLoads,
                   requests, clicks>>

\* the 100 ms delay of processNextGame is over: fetchGameExcitement is called
QueueDelayElapsed ==
    /\ queue.stage = "delay"
    /\ IF SendsRequest(queue.game)
       THEN /\ requests' = Append(requests, [game |-> queue.game, by |-> "queue"])
            /\ queue' = [queue EXCEPT !.stage = "fetch"]
            /\ games' = games
       ELSE /\ games' = UpdateScore(games, queue.game,
                                    fetchGameExcitement(queue.game, [kind |-> "none"]))
            /\ queue' = processNextGame(games', viewMode)
            /\ requests' = requests
    /\ UNCHANGED <<appFrame, appCurrentWeek, viewMode, seasonTopGames,
                   loadingSchedule, loads, seasonLoads, cancelled, clicks>>

\* the backend answers the request of the queue: the score is set and the
\* queue effect runs again
BackendResponds ==
    /\ queue.stage = "fetch"
    /\ \E outcome \in BackendOutcomes :
          games' = ApplyResult(games, TRUE, queue.game,
                               fetchGameExcitement(queue.game, outcome))
    /\ queue' = processNextGame(games', viewMode)
    /\ UNCHANGED <<appFrame, appCurrentWeek, viewMode, seasonTopGames,
                   loadingSchedule, loads, seasonLoads, cancelled, requests, clicks>>

\* the backend answers a request of a queue effect that was cleaned up: a
\* change of the games would run the queue effect again
CancelledResponds(i) ==
    /\ \E outcome \in BackendOutcomes :
          games' = ApplyResult(games, FALSE, cancelled[i],
                               fetchGameExcitement(cancelled[i], outcome))
    /\ cancelled' = RemoveAt(cancelled, i)
    /\ queue' = IF games' = games THEN queue ELSE processNextGame(games', viewMode)
    /\ UNCHANGED <<appFrame, appCurrentWeek, viewMode, seasonTopGames,
                   loadingSchedule, loads, seasonLoads, requests, clicks>>

\* the requests loadSeasonBest sends for a list of games
SeasonRequests(gs) ==
    LET sent == SelectSeq(gs, SendsRequest)
    IN  [k \in 1..Len(sent) |-> [game |-> sent[k], by |-> "season"]]

\* ESPN's answer for a week before the last of a season load: one finished
\* game
EarlierResponse(w) ==
    [ok |-> TRUE, events |-> <<AppEvent(getApiParams(w), 1, "post")>>]

\* fetchSchedule(i) for i = 1..maxWeek - 1, flattened
EarlierSchedules(maxWeek) ==
    Flat([w \in 1..(maxWeek - 1) |->
             fetchSchedule(w, EarlierResponse(w), weekData,
                           [status |-> "notOk", events |-> <<>>])])

\* fetchSchedule(i) for i = 1..maxWeek, flattened, given the schedules of
\* the earlier weeks
SeasonSchedules(earlier, maxWeek, response) ==
    earlier \o fetchSchedule(maxWeek, response, weekData,
                             [status |-> "notOk", events |-> <<>>])

\* the games of the last week of a season load that are requested from the
\* backend, as indices of allGames
LastRequested(allGames, earlierCount) ==
    {k \in (earlierCount + 1)..Len(allGames) : SendsRequest(allGames[k])}

\* the backend's answers for the games of a season load: a score and a
\* failure in turn for the earlier weeks, and the answers given for the
\* requested games of the last week
SeasonOutcomes(allGames, earlierCount, last) ==
    [k \in 1..Len(allGames) |->
        IF k <= earlierCount
        THEN (IF k % 2 = 0 THEN [kind |-> "throws", score |-> 0]
              ELSE [kind |-> "ok", score |-> Tenths(85)])
        ELSE IF SendsRequest(allGames[k])
             THEN last[Cardinality({j \in LastRequested(allGames, earlierCount) :
                                       j <= k})]
             ELSE [kind |-> "none", score |-> 0]]

\* fetchGameExcitement(game).then(({ score }) => ({ ...game, excitementScore: score }))
WithScores(allGames, outcomes) ==
    [k \in 1..Len(allGames) |->
        [allGames[k] EXCEPT
            !.excitementScore = fetchGameExcitement(allGames[k], outcomes[k]).score]]

\* loadSeasonBest returns: the schedules of weeks 1..maxWeek, the scores of
\* the games that are not upcoming, the ten best
SeasonReturns(i) ==
    /\ \E earlier \in {EarlierSchedules(seasonLoads[i])} :
       \E response \in AppResponses(getApiParams(seasonLoads[i])) :
       \E allGames \in {SelectSeq(SeasonSchedules(earlier, seasonLoads[i], response),
                                  LAMBDA g : ~g.isUpcoming)} :
       \E last \in [1..Cardinality(LastRequested(allGames, seasonLoads[i] - 1))
                        -> BackendOutcomes] :
       \E processedGames \in
              {WithScores(allGames,
                          SeasonOutcomes(allGames, seasonLoads[i] - 1, last))} :
          /\ seasonTopGames' = Slice(SortByScore(processedGames, Len(processedGames)))
          /\ requests' = requests \o SeasonRequests(allGames)
    /\ loadingSchedule' = FALSE
    /\ seasonLoads' = RemoveAt(seasonLoads, i)
    /\ UNCHANGED <<appFrame, appCurrentWeek, viewMode, games, loads, queue,
                   cancelled, clicks>>

AppNext ==
    \/ FetchCurrentWeekReturns
    \/ HandlePrev
    \/ HandleNext
    \/ ToggleViewMode
    \/ \E i \in 1..Len(loads) : ScheduleReturns(i)
    \/ QueueDelayElapsed
    \/ BackendResponds
    \/ \E i \in 1..Len(cancelled) : CancelledResponds(i)
    \/ \E i \in 1..Len(seasonLoads) : SeasonReturns(i)

SpecApp == AppInit /\ [][AppNext]_vars

\* the timer of the queue fires and every request of the weekly view is
\* answered; nothing is assumed about when a season load ends
AppFairness ==
    /\ WF_vars(QueueDelayElapsed)
    /\ WF_vars(BackendResponds)
    /\ WF_vars(\E i \in 1..Len(cancelled) : CancelledResponds(i))
    /\ WF_vars(\E i \in 1..Len(loads) : ScheduleReturns(i))

SpecAppFair == SpecApp /\ AppFairness

\* the two views without week navigation: view-mode changes only
MaxToggles == 3

SeasonToggle ==
    /\ clicks < MaxToggles
    /\ onViewModeChange

SeasonNext ==
    \/ FetchCurrentWeekReturns
    \/ SeasonToggle
    \/ \E i \in 1..Len(loads) : ScheduleReturns(i)
    \/ QueueDelayElapsed
    \/ BackendResponds
    \/ \E i \in 1..Len(cancelled) : CancelledResponds(i)
    \/ \E i \in 1..Len(seasonLoads) : SeasonReturns(i)

SpecSeason == AppInit /\ [][SeasonNext]_vars

\* week navigation from every answer of ESPN, while the schedule requests
\* are in flight
WeeksInit == MountedWith(AllWeekAnswers)

WeeksNext == FetchCurrentWeekReturns \/ HandlePrev \/ HandleNext

SpecWeeks == WeeksInit /\ [][WeeksNext]_vars

-----------------------------------------------------------------------------
(* The record format ^\d+-\d+(-\d+)?$, read directly off the string *)

IsDigits(s) == s # <<>> /\ \A i \in 1..Len(s) : s[i] \in DigitChars

DashPositions(s) == {i \in 1..Len(s) : s[i] = "-"}

RecordPattern(s) ==
    /\ Cardinality(DashPositions(s)) \in {1, 2}
    /\ LET d1 == CHOOSE i \in DashPositions(s) : \A j \in DashPositions(s) : i <= j
           d2 == CHOOSE i \in DashPositions(s) : \A j \in DashPositions(s) : j <= i
       IN  /\ IsDigits(SubSeq(s, 1, d1 - 1))
           /\ IsDigits(SubSeq(s, d2 + 1, Len(s)))
           /\ d1 # d2 => IsDigits(SubSeq(s, d1 + 1, d2 - 1))

\* <<wins, losses, ties>> of a string of that format, ties 0 when absent
Fields(s) ==
    LET d1 == CHOOSE i \in DashPositions(s) : \A j \in DashPositions(s) : i <= j
        d2 == CHOOSE i \in DashPositions(s) : \A j \in DashPositions(s) : j <= i
    IN  IF d1 = d2
        THEN <<DigitsValue(SubSeq(s, 1, d1 - 1), 0),
               DigitsValue(SubSeq(s, d1 + 1, Len(s)), 0), 0>>
        ELSE <<DigitsValue(SubSeq(s, 1, d1 - 1), 0),
               DigitsValue(SubSeq(s, d1 + 1, d2 - 1), 0),
               DigitsValue(SubSeq(s, d2 + 1, Len(s)), 0)>>

FlooredMinus(n, dec) == IF dec /\ n > 0 THEN n - 1 ELSE n

\* the record one game earlier
OneGameEarlier(f, res) ==
    <<FlooredMinus(f[1], res = "win"),
      FlooredMinus(f[2], res = "loss"),
      FlooredMinus(f[3], res = "tie")>>

Str_0_0 == <<"0", "-", "0">>
Str_3_3 == <<"3", "-", "3">>
Str_3_3_1 == <<"3", "-", "3", "-", "1">>
Str_4_2 == <<"4", "-", "2">>
Str_5_2 == <<"5", "-", "2">>

\* what each reverter that has returned gave back
Returned ==
    (IF "revertRecord" \in called THEN {reverted} ELSE {})
        \cup (IF "getPreGameRecord" \in called THEN {preGameRecord} ELSE {})

-----------------------------------------------------------------------------
(* C1: for a record W-L or W-L-T and a result, the reverter returns the    *)
(* record with the component named by the result decremented by one and    *)
(* floored at 0 and the other components unchanged; no component of the    *)
(* output is negative, and "0-0" comes back as "0-0".                      *)
C1_RevertDecrementsOneComponent ==
    RecordPattern(record) =>
        \A out \in Returned :
            /\ RecordPattern(out)
            /\ Fields(out) = OneGameEarlier(Fields(record), result)
            /\ record = Str_0_0 => out = Str_0_0

C1_Witness ==
    /\ "revertRecord" \in called
    /\ RecordPattern(record)
    /\ result = "loss"
    /\ Fields(record)[2] = 0
    /\ Fields(record)[1] > 0

(* C2: for a record string that does not have the format                  *)
(* ^\d+-\d+(-\d+)?$ the reverter returns the input string unchanged.       *)
C2_MalformedReturnedUnchanged ==
    ~RecordPattern(record) /\ pre = <<>> =>
        \A out \in Returned : out = record

(* C3: for a well-formed record the returned string has three parts        *)
(* exactly when the resulting tie count is greater than 0 and two parts    *)
(* otherwise, and it always has the record format.                         *)
C3_TiesSuffixOnlyWhenTies ==
    RecordPattern(record) =>
        \A out \in Returned :
            /\ RecordPattern(out)
            /\ Cardinality(DashPositions(out)) =
                   (IF OneGameEarlier(Fields(record), result)[3] > 0 THEN 2 ELSE 1)

C3_Witness ==
    /\ record = Str_3_3_1
    /\ result = "tie"
    /\ "revertRecord" \in called
    /\ reverted = Str_3_3

(* C4: reverting the serialized post-game record with the game's result    *)
(* gives back the canonical serialization of the pre-game record.          *)
C4_RevertInvertsAddGame ==
    pre # <<>> =>
        \A out \in Returned : out = Canonical(pre[1], pre[2], pre[3])

C4_Witness ==
    /\ pre = <<4, 2, 0>>
    /\ result = "win"
    /\ record = Str_5_2
    /\ "revertRecord" \in called
    /\ reverted = Str_4_2

-----------------------------------------------------------------------------
(* Results and records, read directly off ESPN's answers *)

\* a score string as a number, a missing score as 0
ScoreNumber(str) == IF str = <<>> THEN 0 ELSE DigitsValue(str, 0)

Compare(own, other) ==
    IF own > other THEN "win" ELSE IF own < other THEN "loss" ELSE "tie"

Complementary(r1, r2) ==
    <<r1, r2>> \in {<<"win", "loss">>, <<"loss", "win">>, <<"tie", "tie">>}

CurrentWeekNumber == fetchCurrentWeek(weekData).week

\* the record of a team of the i-th viewed game as ESPN listed it
FetchedRecord(i, isHome) ==
    getRegularSeasonRecord(IF isHome THEN scheduleResponse.events[i].home.records
                           ELSE scheduleResponse.events[i].away.records)

ListedRecord(i, isHome) ==
    IF isHome THEN games[i].homeRecord ELSE games[i].awayRecord

TeamOf(i, isHome) == IF isHome THEN games[i].homeTeam ELSE games[i].awayTeam

\* the completed current-week events a team played in
CompletedEventsOf(team) ==
    {n \in 1..Len(currentWeekResponse.events) :
        /\ currentWeekResponse.events[n].state = "post"
        /\ \E k \in 1..2 : currentWeekResponse.events[n].competitors[k].teamName = team}

\* the result of a team in the n-th current-week event, by comparing scores
ResultIn(n, team) ==
    LET c == currentWeekResponse.events[n].competitors
        k == CHOOSE j \in 1..2 : c[j].teamName = team
    IN  Compare(ScoreNumber(c[k].score), ScoreNumber(c[3 - k].score))

FutureRegularWeekViewed ==
    /\ pc = "shown"
    /\ scheduleResponse.ok
    /\ CurrentWeekNumber <= 18
    /\ CurrentWeekNumber < continuousWeek
    /\ continuousWeek <= 18
    /\ currentWeekResponse.status = "ok"

(* C5: the result used to revert a team's record is win iff its score is   *)
(* strictly greater than its opponent's, loss iff strictly smaller, tie    *)
(* iff equal, so the two teams of a finished game get complementary        *)
(* results, in the card's getDisplayRecord and in                          *)
(* adjustRecordsForFutureWeek.                                             *)
C5_ResultsByScoreComparison ==
    pc = "shown" =>
        /\ \A i \in 1..Len(games) :
              games[i].status = "Final" =>
                  LET ev == scheduleResponse.events[i]
                      h == ScoreNumber(ev.home.score)
                      a == ScoreNumber(ev.away.score)
                  IN  /\ CardResult(games[i], TRUE) = Compare(h, a)
                      /\ CardResult(games[i], FALSE) = Compare(a, h)
                      /\ Complementary(CardResult(games[i], TRUE),
                                       CardResult(games[i], FALSE))
        /\ FutureRegularWeekViewed =>
              \A n \in 1..Len(currentWeekResponse.events) :
                  currentWeekResponse.events[n].state = "post" =>
                      LET c == currentWeekResponse.events[n].competitors
                      IN  /\ {c[1].teamName, c[2].teamName} \subseteq DOMAIN teamResults
                          /\ teamResults[c[1].teamName] = ResultIn(n, c[1].teamName)
                          /\ teamResults[c[2].teamName] = ResultIn(n, c[2].teamName)
                          /\ Complementary(teamResults[c[1].teamName],
                                           teamResults[c[2].teamName])

C5_Witness ==
    /\ FutureRegularWeekViewed
    /\ \E t \in DOMAIN teamResults : teamResults[t] = "loss"
    /\ \E i \in 1..Len(games) :
          /\ games[i].status = "Final"
          /\ ~isRevealed[i]
          /\ CardResult(games[i], FALSE) = "win"

(* C6: when a regular-season week later than the current week is viewed    *)
(* and the current-week fetch succeeds, a team with a completed game in    *)
(* the current week is listed with revertRecord(record, its result in that *)
(* game), and every other team with its record exactly as fetched.         *)
C6_FutureWeekRecordsReverted ==
    FutureRegularWeekViewed =>
        /\ Len(games) = Len(scheduleResponse.events)
        /\ \A i \in 1..Len(games) : \A isHome \in BOOLEAN :
              LET played == CompletedEventsOf(TeamOf(i, isHome))
              IN  IF played # {}
                  THEN \E n \in played :
                          ListedRecord(i, isHome) =
                              revertRecord(FetchedRecord(i, isHome),
                                           ResultIn(n, TeamOf(i, isHome)))
                  ELSE ListedRecord(i, isHome) = FetchedRecord(i, isHome)

C6_Witness ==
    /\ FutureRegularWeekViewed
    /\ \E i \in 1..Len(games) :
          /\ CompletedEventsOf(games[i].homeTeam) # {}
          /\ CompletedEventsOf(games[i].awayTeam) = {}
          /\ games[i].homeRecord # FetchedRecord(i, TRUE)
          /\ games[i].awayRecord = FetchedRecord(i, FALSE)
          /\ games[i].awayRecord # <<>>

(* C7: during the playoffs (current week > 18, or a viewed week > 18) the  *)
(* record shown for a team is its regular-season record exactly as         *)
(* fetched, never decremented, whether the card is hidden or revealed and  *)
(* whatever the game's status.                                             *)
C7_PlayoffRecordsShownAsFetched ==
    pc = "shown" /\ (CurrentWeekNumber > 18 \/ continuousWeek > 18) =>
        \A i \in 1..Len(games) : \A isHome \in BOOLEAN :
            DisplayedRecord(i, isHome) = FetchedRecord(i, isHome)

-----------------------------------------------------------------------------
(* The fallback estimate as a table of margin and total-points ranges *)

FallbackTable(home, away, overtime) ==
    LET margin == Abs(home - away)
        total == home + away
        byMargin == CASE margin = 0 -> Tenths(40)
                      [] margin \in 1..3 -> Tenths(30)
                      [] margin \in 4..8 -> Tenths(20)
                      [] margin \in 9..14 -> Tenths(5)
                      [] margin \in 15..24 -> 0
                      [] OTHER -> -Tenths(30)
        byTotal == CASE total > 60 -> Tenths(10)
                     [] total \in 46..60 -> Tenths(5)
                     [] total < 24 -> -Tenths(10)
                     [] OTHER -> 0
        estimate == Tenths(50) + byMargin + byTotal
        raised == IF overtime THEN Maximum({estimate, Tenths(80)}) ELSE estimate
    IN  Minimum({Maximum({raised, Tenths(10)}), Tenths(100)})

(* C8: for every input the excitement score is within [0.0, 10.0]; it is   *)
(* exactly 0.0 when the state is pre, whatever the trace; and for state in *)
(* or post it is clamped to [1.0, 10.0] on the fallback path and on the    *)
(* trace path, so it is never below 1.0.                                   *)
C8_ScoreWithinRange ==
    scored =>
        /\ excitement >= 0
        /\ excitement <= Tenths(100)
        /\ state = "pre" => excitement = 0
        /\ state # "pre" => excitement >= Tenths(10)

C8_Witness ==
    /\ scored
    /\ state = "post"
    /\ \E k \in 1..Len(trace) : trace[k] = 150
    /\ homeScore = 45
    /\ excitement = Tenths(10)

(* C9: with an empty trace and state post the score is the fallback        *)
(* estimate: 5.0 plus the margin adjustment plus the total-points          *)
(* adjustment, raised to 8.0 if overtime, clamped to [1.0, 10.0]; a 45-10  *)
(* game without overtime scores at most 3.0.                               *)
C9_EmptyTraceGivesFallback ==
    scored /\ trace = <<>> /\ state = "post" =>
        /\ excitement = FallbackTable(homeScore, awayScore, isOvertime)
        /\ homeScore = 45 /\ awayScore = 10 /\ ~isOvertime => excitement <= Tenths(30)

C9_Witness ==
    /\ scored
    /\ trace = <<>>
    /\ state = "post"
    /\ homeScore = 45
    /\ awayScore = 10
    /\ ~isOvertime
    /\ excitement = Tenths(25)

(* C10: on the fallback path every overtime game scores at least 8.0, and  *)
(* the overtime flag never lowers a fallback score.                        *)
C10_OvertimeFloorOnFallback ==
    scored /\ trace = <<>> /\ state # "pre" =>
        /\ isOvertime => excitement >= Tenths(80)
        /\ isOvertime =>
              excitement >= ExcitementScore(trace, homeScore, awayScore, FALSE, state)
        /\ ~isOvertime =>
              ExcitementScore(trace, homeScore, awayScore, TRUE, state) >= excitement

C10_Witness ==
    /\ scored
    /\ trace = <<>>
    /\ state = "post"
    /\ isOvertime
    /\ homeScore = 45
    /\ awayScore = 10
    /\ excitement = Tenths(80)

-----------------------------------------------------------------------------
(* Traces that differ in the final sample only *)

\* the final step of a trace of n samples has progress (n - 1)/n > 0.96
FinalStepWeighted(n) == n >= 2 /\ 100 * (n - 1) > 96 * n

\* the signed final swing of a trace, in hundredths
FinalSwing(tr) == Normalize(tr[Len(tr)]) - Normalize(tr[Len(tr) - 1])

WithFinal(tr, f) == [tr EXCEPT ![Len(tr)] = f]

\* other has a larger final swing than tr, in the same direction
LargerSwingSameDirection(tr, other) ==
    /\ FinalSwing(tr) # 0
    /\ FinalSwing(tr) * FinalSwing(other) > 0
    /\ Abs(FinalSwing(other)) > Abs(FinalSwing(tr))

(* C11: of two traces of the same length that are identical except at the  *)
(* final step (progress > 0.96), with final swings in the same direction,  *)
(* and with the same scores, overtime flag and state, the one with the     *)
(* larger final swing scores at least as much as the other.                *)
C11_LargerFinalSwingScoresNoLess ==
    scored /\ FinalStepWeighted(Len(trace)) =>
        \A f \in FinalSamples \cup ProbValues :
            LargerSwingSameDirection(trace, WithFinal(trace, f)) =>
                ExcitementScore(WithFinal(trace, f), homeScore, awayScore,
                                isOvertime, state) >= excitement

(* C12: the trace [0.50, 0.52, 0.80, 0.30, 0.05, 0.92] with home winning   *)
(* 24-20, no overtime, state post, scores strictly more than 5.0 and at    *)
(* most 10.0 on the trace path.                                            *)
C12_ScenarioScoresAboveFive ==
    /\ scored
    /\ trace = ScenarioTrace
    /\ homeScore = 24
    /\ awayScore = 20
    /\ ~isOvertime
    /\ state = "post"
    => /\ excitement > Tenths(50)
       /\ excitement <= Tenths(100)
       /\ excitement = TraceScore(trace, homeScore, awayScore, isOvertime)

C12_Witness ==
    /\ scored
    /\ trace = ScenarioTrace
    /\ homeScore = 24
    /\ awayScore = 20
    /\ ~isOvertime
    /\ state = "post"
    /\ excitement > Tenths(50)

-----------------------------------------------------------------------------
(* The App's games and the requests made for them *)

\* the requests the queue sent since the last week or view-mode change
QueueRequests == SelectSeq(requests, LAMBDA r : r.by = "queue")

IndexIn(gs, id) == CHOOSE i \in 1..Len(gs) : gs[i].id = id

Ids(gs) == {gs[i].id : i \in 1..Len(gs)}

\* the requests of the queue are for distinct games, in the order of the list
RequestedOnceInOrder ==
    \A i, j \in 1..Len(QueueRequests) :
        i < j =>
            /\ QueueRequests[i].game.id # QueueRequests[j].game.id
            /\ {QueueRequests[i].game.id, QueueRequests[j].game.id} \subseteq Ids(games)
                  => IndexIn(games, QueueRequests[i].game.id)
                         < IndexIn(games, QueueRequests[j].game.id)

\* a step in which the backend's answer reaches the queue sets a score that
\* is not null on the game it was for
AnswerSetsScore ==
    /\ queue.stage = "fetch"
    /\ queue'.stage # "fetch" \/ games' # games
    /\ loads' = loads
    /\ clicks' = clicks
    => \A i \in 1..Len(games') :
          games'[i].id = queue.game.id => games'[i].excitementScore # Null

QueueAtRest == queue.stage = "idle" /\ loads = <<>>

(* C13: in weekly view, after the last week or view-mode change, each      *)
(* finished game is requested from the backend at most once, one request   *)
(* at a time in list order; whatever the answer, the game's score is then  *)
(* not null; and the queue eventually selects no game and sends no         *)
(* further request.                                                        *)
C13_QueueRequestsEachGameOnce ==
    /\ []RequestedOnceInOrder
    /\ [][AnswerSetsScore]_vars
    /\ <>[]QueueAtRest

\* the part of C13 that holds: the queue comes to rest
C13_QueueComesToRest == <>[]QueueAtRest

-----------------------------------------------------------------------------
(* The cards the App renders *)

\* displayedGames of the App
DisplayedGames == IF viewMode = "season" THEN seasonTopGames ELSE games

\* the list of GameCards is rendered
CardsRendered == appCurrentWeek # Null /\ ~loadingSchedule

ScoreInRange(g) ==
    /\ g.excitementScore.kind = "number"
    /\ g.excitementScore.val >= 0
    /\ g.excitementScore.val <= Tenths(100)

(* C14: every Game the App holds and passes to a GameCard has an           *)
(* excitementScore that is a number from 0.0 to 10.0, never null and never *)
(* negative, so that toFixed(1) is always applied to a number.             *)
C14_RenderedGamesHaveScoreInRange ==
    CardsRendered =>
        \A i \in 1..Len(DisplayedGames) : ScoreInRange(DisplayedGames[i])

-----------------------------------------------------------------------------
(* Upcoming and live games *)

NotPlayed == Num(0)

Unfinished(g) == g.isUpcoming \/ g.isLive

\* upcoming games carry the score 0, and no request logged is for an
\* upcoming or a live game
UpcomingScoreZeroNoRequest ==
    /\ \A i \in 1..Len(games) :
          games[i].isUpcoming => games[i].excitementScore = NotPlayed
    /\ \A i \in 1..Len(seasonTopGames) :
          seasonTopGames[i].isUpcoming => seasonTopGames[i].excitementScore = NotPlayed
    /\ \A i \in 1..Len(requests) : ~Unfinished(requests[i].game)

\* a schedule that arrives brings every game that is not upcoming with a
\* null score
ArrivesWithNullScore ==
    Len(loads') < Len(loads) =>
        \A i \in 1..Len(games') :
            ~games'[i].isUpcoming => games'[i].excitementScore = Null

\* a step of the queue leaves the score of every upcoming or live game alone
QueueKeepsUnfinishedScores ==
    queue.stage \in {"delay", "fetch"} /\ loads' = loads /\ clicks' = clicks =>
        /\ Len(games') = Len(games)
        /\ \A i \in 1..Len(games) :
              Unfinished(games[i]) => games'[i] = games[i]

-----------------------------------------------------------------------------
(* Week navigation *)

Weeks == 1..LastWeek

\* the selected week is one of the 23 weeks; the previous button changes
\* nothing at week 1 and asks for the week before otherwise; the next button
\* changes nothing at the Super Bowl and asks for the week after otherwise
WeekCapped ==
    appCurrentWeek # Null =>
        LET w == appCurrentWeek.week
        IN  /\ w \in Weeks
            /\ handlePrev(w) = IF w = 1 THEN <<>> ELSE <<w - 1>>
            /\ handleNext(w) = IF w = LastWeek THEN <<>> ELSE <<w + 1>>

\* a click changes the selected week exactly when it counts as a week
\* change, and then by one
MovesByOne ==
    appCurrentWeek # Null =>
        /\ (appCurrentWeek' # appCurrentWeek) = (clicks' # clicks)
        /\ appCurrentWeek' # appCurrentWeek =>
               /\ appCurrentWeek'.week - appCurrentWeek.week \in {-1, 1}
               /\ appCurrentWeek'.week \in Weeks

(* C16: starting from any continuous week in 1..23, after any sequence of  *)
(* previous and next clicks the selected week stays in 1..23; previous at  *)
(* week 1 and next at week 23 issue no week change, and every other click  *)
(* moves the week by exactly one.                                          *)
C16_WeekNavigationCapped == []WeekCapped /\ [][MovesByOne]_vars

\* the Super Bowl week, reached by a click on the next button
C16_Witness ==
    /\ appCurrentWeek # Null
    /\ appCurrentWeek.week = LastWeek
    /\ clicks > 0
    /\ loads[Len(loads) - 1].week = LastWeek - 1

(* C17: in every reachable App state, from the result of fetchCurrentWeek  *)
(* (its failure default included) through any sequence of week changes,    *)
(* currentWeek.seasonType is 2 exactly when the continuous week is in      *)
(* 1..18 and 3 exactly when it is 19 or more.                              *)
C17_SeasonTypeFollowsWeek ==
    appCurrentWeek # Null =>
        /\ (appCurrentWeek.seasonType = 2) = (appCurrentWeek.week \in 1..RegularSeasonWeeks)
        /\ (appCurrentWeek.seasonType = 3) = (appCurrentWeek.week > RegularSeasonWeeks)

-----------------------------------------------------------------------------
(* Continuous weeks and API weeks *)

\* ESPN's answer names a week of the regular season or of the postseason
NamesSeasonWeek(data) ==
    /\ data.ok
    /\ \/ data.seasonType = 2 /\ data.week \in 1..RegularSeasonWeeks
       \/ data.seasonType = 3 /\ data.week \in 1..(LastWeek - RegularSeasonWeeks)

\* the continuous week fetchCurrentWeek computes from API parameters
ContinuousWeekOf(params) ==
    fetchCurrentWeek([ok |-> TRUE, week |-> params.week,
                      seasonType |-> params.seasonType]).week

\* the schedule request of the week ESPN named asks for that week, and the
\* parameters of every schedule request map back to the week it is for
WeekRoundTrips ==
    /\ appCurrentWeek # Null /\ clicks = 0 /\ NamesSeasonWeek(weekData) =>
           /\ appCurrentWeek.week =
                  IF weekData.seasonType = 3 THEN weekData.week + RegularSeasonWeeks
                  ELSE weekData.week
           /\ loads[1].params = [seasonType |-> weekData.seasonType,
                                 week |-> weekData.week]
    /\ \A i \in 1..Len(loads) :
           loads[i].week \in Weeks =>
               ContinuousWeekOf(getApiParams(loads[i].week)) = loads[i].week

(* C18: for every regular-season API week w in 1..18 (season type 2) and   *)
(* every postseason API week w in 1..5 (season type 3), getApiParams       *)
(* applied to the continuous week computed by fetchCurrentWeek (w, or      *)
(* w + 18 for the postseason) returns exactly (seasonType, w); and for     *)
(* every continuous week c in 1..23, getApiParams(c) maps back to c.       *)
C18_ContinuousWeekRoundTrips == WeekRoundTrips

\* the first postseason week: continuous week 19, asked for as week 1 of
\* season type 3
C18_Witness ==
    /\ appCurrentWeek # Null
    /\ clicks = 0
    /\ weekData = [ok |-> TRUE, week |-> 1, seasonType |-> 3]
    /\ appCurrentWeek.week = RegularSeasonWeeks + 1
    /\ loads = <<[week |-> RegularSeasonWeeks + 1,
                  params |-> [seasonType |-> 3, week |-> 1]]>>

-----------------------------------------------------------------------------
(* Hidden cards *)

\* a hidden card renders no score and both names in the neutral colour, and
\* the card of an upcoming game is hidden and has no button
HiddenCardShowsNoResult ==
    pc = "shown" =>
        \A i \in 1..Len(games) :
            LET card == GameCard(games[i], isRevealed[i])
            IN  /\ ~isRevealed[i] =>
                       /\ card.homeScore = <<>>
                       /\ card.awayScore = <<>>
                       /\ card.homeName = "text-neutral-200"
                       /\ card.awayName = "text-neutral-200"
                /\ games[i].isUpcoming => ~isRevealed[i] /\ card.button = <<>>

\* every card is mounted hidden, and afterwards isRevealed changes only by
\* the button of one card, which toggles it
RevealOnlyByButton ==
    /\ pc = "loading" /\ pc' = "shown" => \A i \in 1..Len(games') : ~isRevealed'[i]
    /\ pc = "shown" /\ isRevealed' # isRevealed =>
           \E i \in 1..Len(games) :
               /\ GameCard(games[i], isRevealed[i]).button # <<>>
               /\ isRevealed' = [isRevealed EXCEPT ![i] = ~isRevealed[i]]

(* C19: every card starts hidden; in every state with isRevealed false     *)
(* neither team's score nor any winner highlight is rendered; isRevealed   *)
(* changes only through the reveal button, which toggles it; and the       *)
(* button exists only for games that are not upcoming, so the card of an   *)
(* upcoming game never becomes revealed.                                   *)
C19_HiddenCardNeverShowsResult ==
    []HiddenCardShowsNoResult /\ [][RevealOnlyByButton]_vars

\* the hidden card of a finished game that the home team won
C19_Witness ==
    /\ pc = "shown"
    /\ Len(games) = 1
    /\ games[1].status = "Final"
    /\ Greater(games[1].homeScore, games[1].awayScore)
    /\ ~isRevealed[1]
    /\ GameCard(games[1], TRUE).homeName = "text-white"
    /\ GameCard(games[1], isRevealed[1]).button = <<"Reveal Score">>

-----------------------------------------------------------------------------
(* The record a card displays *)

HiddenFinal(i) == games[i].status = "Final" /\ ~isRevealed[i]

\* the card shows the listed record, or the record one game earlier exactly
\* when the game is Final and the card hidden; a listed record that
\* adjustRecordsForFutureWeek has already reverted is shown as listed
DisplayRevertsAtMostOnce ==
    pc = "shown" =>
        \A i \in 1..Len(games) : \A isHome \in BOOLEAN :
            /\ DisplayedRecord(i, isHome) =
                   IF HiddenFinal(i)
                   THEN getPreGameRecord(ListedRecord(i, isHome),
                                         CardResult(games[i], isHome))
                   ELSE ListedRecord(i, isHome)
            /\ ListedRecord(i, isHome) # FetchedRecord(i, isHome) =>
                   DisplayedRecord(i, isHome) = ListedRecord(i, isHome)

\* the reveal button leaves the games as they are
RevealKeepsGames == pc = "shown" => games' = games

(* C20: getDisplayRecord returns the current record unchanged whenever the *)
(* game's status is not 'Final' or the card is revealed, and the reverted  *)
(* record exactly when the game is Final and hidden; it never modifies the *)
(* Game, so revealing and hiding again restores the displayed record; and  *)
(* a record already reverted by adjustRecordsForFutureWeek is not reverted *)
(* again by the card.                                                      *)
C20_DisplayRecordRevertsAtMostOnce ==
    []DisplayRevertsAtMostOnce /\ [][RevealKeepsGames]_vars

\* the parts of C20 that hold: what getDisplayRecord returns, and the games
\* left as they are
C20_DisplayRecordByStatusAndReveal ==
    /\ [](pc = "shown" =>
            \A i \in 1..Len(games) : \A isHome \in BOOLEAN :
                DisplayedRecord(i, isHome) =
                    IF HiddenFinal(i)
                    THEN getPreGameRecord(ListedRecord(i, isHome),
                                          CardResult(games[i], isHome))
                    ELSE ListedRecord(i, isHome))
    /\ [][RevealKeepsGames]_vars

-----------------------------------------------------------------------------
(* What adjustRecordsForFutureWeek is handed and what it returns *)

\* the games fetchSchedule hands to adjustRecordsForFutureWeek
InputGames ==
    [i \in 1..Len(scheduleResponse.events) |-> ToGame(scheduleResponse.events[i])]

SameButRecords(g, input) ==
    [g EXCEPT !.homeRecord = input.homeRecord, !.awayRecord = input.awayRecord] = input

NotAFutureWeek ==
    \/ CurrentWeekNumber > 18
    \/ continuousWeek > 18
    \/ continuousWeek <= CurrentWeekNumber

(* C21: adjustRecordsForFutureWeek returns the input games unchanged,      *)
(* without any network request, when currentWeek > 18, viewingWeek > 18 or *)
(* viewingWeek <= currentWeek, and returns them unchanged when the         *)
(* current-week response is not OK or an exception occurs; in all cases    *)
(* the returned list has the same games in the same order, and only        *)
(* homeRecord and awayRecord can differ from the input.                    *)
C21_AdjustmentLeavesGamesAlone ==
    pc = "shown" /\ scheduleResponse.ok =>
        /\ NotAFutureWeek => games = InputGames /\ currentWeekRequests = <<>>
        /\ currentWeekResponse.status # "ok" => games = InputGames
        /\ Len(games) = Len(InputGames)
        /\ \A i \in 1..Len(games) : SameButRecords(games[i], InputGames[i])

\* the current week is viewed, two games are listed, the home team of the
\* first has completed a game of the current week, and the list is returned
\* as it came, without a request
C21_Witness ==
    /\ pc = "shown"
    /\ continuousWeek = CurrentWeekNumber
    /\ CurrentWeekNumber <= 18
    /\ Len(games) = 2
    /\ currentWeekResponse.status = "ok"
    /\ CompletedEventsOf(games[1].homeTeam) # {}
    /\ games[1].homeRecord # <<>>
    /\ revertRecord(games[1].homeRecord, "win") # games[1].homeRecord
    /\ games = InputGames
    /\ currentWeekRequests = <<>>

(* C22: GameCard's getPreGameRecord and the service's revertRecord are     *)
(* equivalent: for every record string (well-formed, malformed, empty,     *)
(* with or without a ties part) and every result they return the same      *)
(* string.                                                                 *)
C22_RevertersAgree ==
    called = {"revertRecord", "getPreGameRecord"} => reverted = preGameRecord

\* both have reverted a tie of 3-3-1: the ties count is 0 afterwards and
\* neither writes it
C22_Witness ==
    /\ called = {"revertRecord", "getPreGameRecord"}
    /\ record = Str_3_3_1
    /\ result = "tie"
    /\ reverted = Str_3_3
    /\ preGameRecord = Str_3_3

-----------------------------------------------------------------------------
(* Answers of the backend and the games they are written to *)

\* g with the excitementScore and isEstimated of old
WithScoreOf(g, old) ==
    [g EXCEPT !.excitementScore = old.excitementScore,
              !.isEstimated = old.isEstimated]

\* an answer that reaches the mounted queue effect changes the score and
\* the estimate flag of the game that was requested and nothing else
AnswerWritesRequestedGameOnly ==
    /\ queue.stage = "fetch"
    /\ games' # games
    /\ loads' = loads
    /\ clicks' = clicks
    => /\ Len(games') = Len(games)
       /\ \A i \in 1..Len(games) :
             IF games[i].id = queue.game.id
             THEN WithScoreOf(games'[i], games[i]) = games[i]
             ELSE games'[i] = games[i]

\* an answer to a request of a queue effect that was cleaned up changes
\* nothing
CancelledAnswerDiscarded ==
    Len(cancelled') < Len(cancelled) =>
        UNCHANGED <<games, seasonTopGames, queue, requests, loadingSchedule>>

(* C23: a score returned by the backend is written only to the game whose  *)
(* id was requested: it changes only that game's excitementScore and       *)
(* isEstimated and leaves every other game and the list order unchanged;   *)
(* and a response that arrives after the games list has changed or the     *)
(* view left weekly mode (the effect's cleanup ran) is discarded and       *)
(* changes nothing.                                                        *)
C23_ScoreWrittenToRequestedGameOnly ==
    [][AnswerWritesRequestedGameOnly /\ CancelledAnswerDiscarded]_vars

\* a request of a cleaned-up effect is in flight for a game that the new
\* list holds without a score, next to a live game
C23_Witness ==
    /\ viewMode = "weekly"
    /\ Len(cancelled) = 1
    /\ Len(games) = 2
    /\ games[1].isLive
    /\ games[2].id = cancelled[1].id
    /\ games[2].excitementScore = Null
    /\ queue.stage = "fetch"

-----------------------------------------------------------------------------
(* The season leaderboard *)

\* at most ten games, none upcoming, by non-increasing score with a null
\* score counted as 0
LeaderboardShape ==
    /\ Len(seasonTopGames) <= TopCount
    /\ \A i \in 1..Len(seasonTopGames) : ~seasonTopGames[i].isUpcoming
    /\ \A i, j \in 1..Len(seasonTopGames) :
          i < j => ScoreOrZero(seasonTopGames[i]) >= ScoreOrZero(seasonTopGames[j])

\* a leaderboard that is not empty stays as it is
LeaderboardKept == seasonTopGames # <<>> => seasonTopGames' = seasonTopGames

(* C24: seasonTopGames always contains at most 10 games, contains no       *)
(* upcoming game, and is ordered by non-increasing excitement score (a     *)
(* null score counted as 0); once it is non-empty it is never recomputed,  *)
(* whatever later view-mode or week changes occur.                         *)
C24_LeaderboardNeverRecomputed ==
    []LeaderboardShape /\ [][LeaderboardKept]_vars

\* the part of C24 that holds: the shape of the leaderboard
C24_LeaderboardShapeHolds == LeaderboardShape

\* a leaderboard cut to ten games of more: nine with a score and a live game
\* without one, ranked above the games the backend failed for
C24_ShapeWitness ==
    /\ Len(seasonTopGames) = TopCount
    /\ seasonTopGames[1].excitementScore = Num(Tenths(85))
    /\ seasonTopGames[TopCount].isLive
    /\ seasonTopGames[TopCount].excitementScore = Null

====
